---- MODULE Spec2Model ----
(***************************************************************************)
(* Model of the regex front-end of Lab3Teoria:                             *)
(*   shunting_yard_regex.py  insert_concatenation -> shunting_yard ->      *)
(*                           build_syntax_tree                             *)
(*   shunting_yard_simp.py   expand_plus_question, then the same stages    *)
(*                                                                         *)
(* A Python string is a sequence of one-character strings; a token is the  *)
(* sequence of its characters (length 1, or 2 for an escape pair); None is *)
(* the empty sequence and a present child is the one-element sequence      *)
(* holding the node.                                                       *)
(***************************************************************************)
EXTENDS Naturals, Sequences, FiniteSets, TLC

VARIABLES pc, expr, infix, tokens, postfix, pasos, stack, k, root

vars == <<pc, expr, infix, tokens, postfix, pasos, stack, k, root>>

(***************************************************************************)
(* Bounds of the model                                                     *)
(***************************************************************************)
\* longest enumerated input line of the infix pipeline
MaxExprLen == 5
\* longest enumerated raw line given to expand_plus_question
MaxRawLen == 5
\* longest enumerated postfix sequence given directly to build_syntax_tree
MaxPostfixLen == 5

(***************************************************************************)
(* Characters                                                              *)
(***************************************************************************)
Backslash == "\\"
Epsilon == "ε"
None == <<>>

\* the characters of the model for which str.isalnum() is true
Alnum == {"a", "b", "c", Epsilon}

Last(s) == s[Len(s)]
Front(s) == SubSeq(s, 1, Len(s) - 1)

\* s[i] of Python (0-based)
At(s, i) == s[i + 1]

\* s[a:b] of Python for 0 <= a, 0 <= b (0-based, end exclusive, clipped)
Slice(s, a, b) ==
    LET hi == IF b > Len(s) THEN Len(s) ELSE b
    IN  IF a >= hi THEN <<>> ELSE SubSeq(s, a + 1, hi)

\* ''.join(tokens)
RECURSIVE Join(_)
Join(toks) == IF toks = <<>> THEN <<>> ELSE Head(toks) \o Join(Tail(toks))

(***************************************************************************)
(* Paso 0: expand_plus_question (shunting_yard_simp.py); positions are the *)
(* 0-based positions of the source                                         *)
(***************************************************************************)
\* the while loop of is_escaped: the number of '\' right before position k+1
RECURSIVE BackslashesBefore(_, _)
BackslashesBefore(s, kk) ==
    IF kk >= 0 /\ At(s, kk) = Backslash
    THEN 1 + BackslashesBefore(s, kk - 1)
    ELSE 0

is_escaped(s, pos) == (BackslashesBefore(s, pos - 1) % 2) = 1

\* the inner while of the group branch: the value of i when it ends
RECURSIVE ScanGroup(_, _, _)
ScanGroup(s, i, depth) ==
    IF i < Len(s) /\ depth > 0
    THEN ScanGroup(s, i + 1,
                   IF At(s, i) = "(" /\ ~is_escaped(s, i) THEN depth + 1
                   ELSE IF At(s, i) = ")" /\ ~is_escaped(s, i) THEN depth - 1
                   ELSE depth)
    ELSE i

\* mutant of GroupInner: the slice keeps the closing parenthesis
GroupInnerKeepsClose(s, start, i) == Slice(s, start + 1, i)

\* inner = expr[start+1:i-1]
GroupInner(s, start, i) == Slice(s, start + 1, i - 1)

\* mutant of Rewrite: X+ written as X* (the unit is not repeated)
RewriteNoRepeat(token, op) ==
    IF op = "+" THEN token \o <<"*">>
    ELSE <<"(">> \o token \o <<"|", Epsilon>> \o <<")">>

\* what is added to out for a unit followed by op
Rewrite(token, op) ==
    IF op = "+" THEN token \o token \o <<"*">>
    ELSE <<"(">> \o token \o <<"|", Epsilon>> \o <<")">>

RECURSIVE expand_plus_question(_)
RECURSIVE ExpandFrom(_, _)

\* the unit starting at i: its text and the position after it
Unit(s, i) ==
    IF At(s, i) = Backslash /\ i + 1 < Len(s)
    THEN [token |-> Slice(s, i, i + 2), next |-> i + 2]
    ELSE IF At(s, i) = "(" /\ ~is_escaped(s, i)
    THEN LET e == ScanGroup(s, i + 1, 1)
         IN  [token |-> <<"(">> \o expand_plus_question(GroupInner(s, i, e))
                               \o <<")">>,
              next |-> e]
    ELSE [token |-> <<At(s, i)>>, next |-> i + 1]

\* the outer while loop from position i: what it adds to out
ExpandFrom(s, i) ==
    IF i >= Len(s) THEN <<>>
    ELSE LET u == Unit(s, i)
             j == u.next
         IN  IF j < Len(s) /\ ~is_escaped(s, j) /\ At(s, j) \in {"+", "?"}
             THEN Rewrite(u.token, At(s, j)) \o ExpandFrom(s, j + 1)
             ELSE u.token \o ExpandFrom(s, j)

expand_plus_question(s) == ExpandFrom(s, 0)

(***************************************************************************)
(* Paso 1: insert_concatenation                                            *)
(***************************************************************************)
\* the tokenising while loop; i is the 1-based position of expr[i]
RECURSIVE Tokenize(_, _)
Tokenize(s, i) ==
    IF i > Len(s) THEN <<>>
    ELSE IF s[i] = Backslash /\ i + 1 <= Len(s)
         THEN <<SubSeq(s, i, i + 1)>> \o Tokenize(s, i + 2)
         ELSE <<(<<s[i]>>)>> \o Tokenize(s, i + 1)

\* the condition of the if that appends '.'
ConcatBetween(prev, tok) ==
    /\ prev \notin {<<"|">>, <<"(">>}
    /\ tok \notin {<<"|">>, <<")">>, <<"*">>, <<"+">>, <<"?">>}

\* the for loop over enumerate(tokens); j is 1-based
RECURSIVE InsertDots(_, _)
InsertDots(toks, j) ==
    IF j > Len(toks) THEN <<>>
    ELSE (IF j > 1 /\ ConcatBetween(toks[j - 1], toks[j])
          THEN <<(<<".">>)>> ELSE <<>>)
         \o <<toks[j]>> \o InsertDots(toks, j + 1)

insert_concatenation(s) == InsertDots(Tokenize(s, 1), 1)

(***************************************************************************)
(* Paso 2: shunting_yard                                                   *)
(***************************************************************************)
precedence(op) ==
    IF op \in {<<"*">>, <<"+">>, <<"?">>} THEN 3
    ELSE IF op = <<".">> THEN 2
    ELSE IF op = <<"|">> THEN 1
    ELSE 0

\* the test of the first branch: a literal or an escape
IsOperand(token) ==
    \/ token[1] = Backslash
    \/ /\ Len(token) = 1
       /\ \/ token[1] \in Alnum
          \/ token[1] \in {"_", "[", "]", "{", "}", Epsilon}

\* op = stack.pop(); output.append(op); pasos.append((label, ...))
PopToOutput(st, label) ==
    LET op == Last(st.stack)
        nxt == [output |-> Append(st.output, op), stack |-> Front(st.stack)]
    IN  [output |-> nxt.output, stack |-> nxt.stack,
         pasos |-> Append(st.pasos, <<label, nxt.output, nxt.stack>>)]

LabelPopForClose(op) == <<"pop for )">>
LabelPopOp(op) == <<"pop op", op>>
LabelPopEnd(op) == <<"pop end", op>>

\* while stack and stack[-1] != '(' of the ')' branch
RECURSIVE PopForClose(_)
PopForClose(st) ==
    IF st.stack # <<>> /\ Last(st.stack) # <<"(">>
    THEN PopForClose(PopToOutput(st, LabelPopForClose(Last(st.stack))))
    ELSE st

\* mutant of PopOps: > in place of >=, equal precedence is not popped
RECURSIVE PopOpsStrict(_, _)
PopOpsStrict(st, token) ==
    IF st.stack # <<>> /\ precedence(Last(st.stack)) > precedence(token)
    THEN IF Last(st.stack) = <<"(">> THEN st
         ELSE PopOpsStrict(PopToOutput(st, LabelPopOp(Last(st.stack))), token)
    ELSE st

\* while stack and precedence(stack[-1]) >= precedence(token), with its break
RECURSIVE PopOps(_, _)
PopOps(st, token) ==
    IF st.stack # <<>> /\ precedence(Last(st.stack)) >= precedence(token)
    THEN IF Last(st.stack) = <<"(">> THEN st
         ELSE PopOps(PopToOutput(st, LabelPopOp(Last(st.stack))), token)
    ELSE st

\* the body of "for token in tokens"
ShuntToken(st, token) ==
    IF IsOperand(token) THEN
        LET o == Append(st.output, token)
        IN  [output |-> o, stack |-> st.stack,
             pasos |-> Append(st.pasos, <<(<<"operand", token>>), o, st.stack>>)]
    ELSE IF token = <<"(">> THEN
        LET s == Append(st.stack, token)
        IN  [output |-> st.output, stack |-> s,
             pasos |-> Append(st.pasos, <<(<<"push (">>), st.output, s>>)]
    ELSE IF token = <<")">> THEN
        LET p == PopForClose(st)
        IN  IF p.stack # <<>> /\ Last(p.stack) = <<"(">>
            THEN [output |-> p.output, stack |-> Front(p.stack),
                  pasos |-> Append(p.pasos,
                                   <<(<<"pop (">>), p.output, Front(p.stack)>>)]
            ELSE [p EXCEPT !.pasos =
                      Append(@, <<(<<"ignore unmatched )">>), p.output, p.stack>>)]
    ELSE IF token \in {<<"|">>, <<".">>, <<"*">>, <<"+">>, <<"?">>} THEN
        LET p == PopOps(st, token)
            s == Append(p.stack, token)
        IN  [output |-> p.output, stack |-> s,
             pasos |-> Append(p.pasos, <<(<<"push op", token>>), p.output, s>>)]
    ELSE [st EXCEPT !.pasos =
              Append(@, <<(<<"ignore", token>>), st.output, st.stack>>)]

RECURSIVE ShuntLoop(_, _, _)
ShuntLoop(toks, i, st) ==
    IF i > Len(toks) THEN st
    ELSE ShuntLoop(toks, i + 1, ShuntToken(st, toks[i]))

\* the final "while stack": everything left is popped to the output
RECURSIVE PopEnd(_)
PopEnd(st) ==
    IF st.stack # <<>>
    THEN PopEnd(PopToOutput(st, LabelPopEnd(Last(st.stack))))
    ELSE st

shunting_yard(toks) ==
    PopEnd(ShuntLoop(toks, 1, [output |-> <<>>, stack |-> <<>>, pasos |-> <<>>]))

(***************************************************************************)
(* Paso 3: build_syntax_tree                                               *)
(***************************************************************************)
RegexNode(value, left, right) ==
    [value |-> value, left |-> left, right |-> right]

Unary == {<<"*">>, <<"+">>, <<"?">>}
Binary == {<<".">>, <<"|">>}

\* mutant of BuildToken: a pop guarded by "if stack", so a missing operand
\* becomes a missing child
BuildTokenLenient(s, tok) ==
    IF tok \in Unary THEN
        IF s = <<>>
        THEN [raised |-> FALSE, stack |-> <<RegexNode(tok, None, None)>>]
        ELSE [raised |-> FALSE,
              stack |-> Append(Front(s), RegexNode(tok, <<Last(s)>>, None))]
    ELSE IF tok \in Binary THEN
        IF s = <<>>
        THEN [raised |-> FALSE, stack |-> <<RegexNode(tok, None, None)>>]
        ELSE IF Front(s) = <<>>
        THEN [raised |-> FALSE, stack |-> <<RegexNode(tok, None, <<Last(s)>>)>>]
        ELSE [raised |-> FALSE,
              stack |-> Append(Front(Front(s)),
                               RegexNode(tok, <<Last(Front(s))>>, <<Last(s)>>))]
    ELSE [raised |-> FALSE, stack |-> Append(s, RegexNode(tok, None, None))]

\* the body of "for tok in postfix_tokens" on the operand stack s:
\* list.pop() on an empty list raises IndexError
BuildToken(s, tok) ==
    IF tok \in Unary THEN
        IF s = <<>> THEN [raised |-> TRUE, stack |-> s]
        ELSE [raised |-> FALSE,
              stack |-> Append(Front(s), RegexNode(tok, <<Last(s)>>, None))]
    ELSE IF tok \in Binary THEN
        IF s = <<>> THEN [raised |-> TRUE, stack |-> s]
        ELSE IF Front(s) = <<>> THEN [raised |-> TRUE, stack |-> Front(s)]
        ELSE [raised |-> FALSE,
              stack |-> Append(Front(Front(s)),
                               RegexNode(tok, <<Last(Front(s))>>, <<Last(s)>>))]
    ELSE [raised |-> FALSE, stack |-> Append(s, RegexNode(tok, None, None))]

(***************************************************************************)
(* Inputs                                                                  *)
(***************************************************************************)
Strings(A, n) == UNION {[1..m -> A] : m \in 0..n}

\* a line of single-character tokens, e.g. Toks(<<"a","b","|">>)
Toks(s) == [i \in 1..Len(s) |-> <<s[i]>>]

RegexAlphabet == {"a", "b", "|", "*", "(", ")", "."}

\* further lines: the documented examples longer than MaxExprLen, an
\* escape, the quantifiers + and ?, and a character shunting_yard ignores
RegexExamples ==
    { <<"a", "|", "b", "c", "*">>,
      <<"(", "a", "|", "b", ")", "c">>,
      <<"(", "a", ".", "b", ")">>,
      <<"(", "(", "a", "|", "b", ")", "*", ")">>,
      <<"\\", "(", "a", "+", "b", "?">>,
      <<"a", "#", ")">> }

\* procesar_archivo skips blank lines
RegexInputs == (Strings(RegexAlphabet, MaxExprLen) \cup RegexExamples) \ {<<>>}

PostfixAlphabet == {"a", "b", "*", ".", "|"}

PostfixExamples ==
    { <<"a", "b", ".", "c", "|">>,
      <<"a", "?", "b", "+", ".">> }

PostfixInputs ==
    {Toks(s) : s \in Strings(PostfixAlphabet, MaxPostfixLen) \cup PostfixExamples}

(***************************************************************************)
(* procesar_archivo of shunting_yard_regex.py, one line                    *)
(***************************************************************************)
InitRegex ==
    /\ pc = "infix"
    /\ expr \in RegexInputs
    /\ infix = expr
    /\ tokens = <<>>
    /\ postfix = <<>>
    /\ pasos = <<>>
    /\ stack = <<>>
    /\ k = 1
    /\ root = None

\* tokens = insert_concatenation(expr)
InsertConcatenation ==
    /\ pc = "infix"
    /\ tokens' = insert_concatenation(infix)
    /\ pc' = "tokens"
    /\ UNCHANGED <<expr, infix, postfix, pasos, stack, k, root>>

\* postfix, pasos = shunting_yard(tokens)
ShuntingYard ==
    /\ pc = "tokens"
    /\ LET r == shunting_yard(tokens)
       IN  /\ postfix' = r.output
           /\ pasos' = r.pasos
    /\ pc' = "build"
    /\ stack' = <<>>
    /\ k' = 1
    /\ UNCHANGED <<expr, infix, tokens, root>>

\* one iteration of the for loop of build_syntax_tree
BuildStep ==
    /\ pc = "build"
    /\ k <= Len(postfix)
    /\ LET r == BuildToken(stack, postfix[k])
       IN  /\ stack' = r.stack
           /\ pc' = IF r.raised THEN "raised" ELSE "build"
    /\ k' = k + 1
    /\ UNCHANGED <<expr, infix, tokens, postfix, pasos, root>>

\* return stack.pop()
BuildReturn ==
    /\ pc = "build"
    /\ k > Len(postfix)
    /\ IF stack = <<>>
       THEN /\ pc' = "raised"
            /\ UNCHANGED <<stack, root>>
       ELSE /\ pc' = "returned"
            /\ root' = <<Last(stack)>>
            /\ stack' = Front(stack)
    /\ UNCHANGED <<expr, infix, tokens, postfix, pasos, k>>

NextRegex == InsertConcatenation \/ ShuntingYard \/ BuildStep \/ BuildReturn

SpecRegex == InitRegex /\ [][NextRegex]_vars

(***************************************************************************)
(* build_syntax_tree called on a postfix sequence                          *)
(***************************************************************************)
InitTree ==
    /\ pc = "build"
    /\ postfix \in PostfixInputs
    /\ expr = <<>>
    /\ infix = <<>>
    /\ tokens = <<>>
    /\ pasos = <<>>
    /\ stack = <<>>
    /\ k = 1
    /\ root = None

NextTree == BuildStep \/ BuildReturn

SpecTree == InitTree /\ [][NextTree]_vars

(***************************************************************************)
(* procesar_archivo of shunting_yard_simp.py, one line                     *)
(***************************************************************************)
RawAlphabet == {"a", "(", ")", "+", "?", "\\", "|", "*"}

RawExamples ==
    { <<"(", "a", "b", ")", "+">>,
      <<"(", "a", "+", ")", "?">>,
      <<"(", "(", "a", ")", "+", "b", ")", "?">>,
      <<"(", "a", "(", "b", ")", ")">>,
      <<"a", "b", "?", "c", "+">> }

RawInputs == (Strings(RawAlphabet, MaxRawLen) \cup RawExamples) \ {<<>>}

InitSimp ==
    /\ pc = "raw"
    /\ expr \in RawInputs
    /\ infix = <<>>
    /\ tokens = <<>>
    /\ postfix = <<>>
    /\ pasos = <<>>
    /\ stack = <<>>
    /\ k = 1
    /\ root = None

\* expr2 = expand_plus_question(expr)
ExpandPlusQuestion ==
    /\ pc = "raw"
    /\ infix' = expand_plus_question(expr)
    /\ pc' = "infix"
    /\ UNCHANGED <<expr, tokens, postfix, pasos, stack, k, root>>

NextSimp ==
    ExpandPlusQuestion \/ InsertConcatenation \/ ShuntingYard \/ BuildStep
        \/ BuildReturn

SpecSimp == InitSimp /\ [][NextSimp]_vars

(***************************************************************************)
(* Properties of build_syntax_tree (SpecTree)                              *)
(***************************************************************************)
Leaf(c) == RegexNode(<<c>>, None, None)

\* the number of operands an operator token takes
Arity(tok) ==
    IF tok \in {<<"*">>, <<"+">>, <<"?">>} THEN 1
    ELSE IF tok \in {<<".">>, <<"|">>} THEN 2
    ELSE 0

\* post-order traversal of an optional node: left, right, value
RECURSIVE PostOrder(_)
PostOrder(n) ==
    IF n = None THEN <<>>
    ELSE PostOrder(n[1].left) \o PostOrder(n[1].right) \o <<n[1].value>>

\* C2: build_syntax_tree never returns a tree when more than one node
\* remains on the operand stack after the last token: whenever it has
\* returned, the popped root was the only node (nothing is left behind).
C2_MalformedTreeRaised == (pc = "returned") => (stack = <<>>)

\* C3: whenever the loop reaches an operator token with fewer nodes on the
\* operand stack than the operator's arity, the call ends in the error and
\* no tree is returned; the error is final; and for the postfix a*. the
\* call has raised by the time the loop is over.
C3_StackUnderflow ==
    /\ [][(/\ pc = "build"
           /\ k <= Len(postfix)
           /\ Len(stack) < Arity(postfix[k]))
          => (pc' = "raised" /\ root' = None)]_vars
    /\ [][pc = "raised" => pc' = "raised"]_vars
    /\ [](pc = "raised" => root = None)
    /\ []((postfix = Toks(<<"a", "*", ".">>) /\ k > Len(postfix))
            => (pc = "raised" /\ root = None))

C3_Witness ==
    /\ pc = "raised"
    /\ postfix = Toks(<<"a", "*", ".">>)
    /\ k = 4
    /\ root = None

\* C9: on every postfix sequence on which build_syntax_tree returns, the
\* post-order traversal of the returned tree is the sequence itself
\* (operand order is preserved); for ab.c| the root is | with left child
\* . over the leaves a and b, and right child the leaf c.
C9_OperandOrder ==
    (pc = "returned") =>
        /\ PostOrder(root) = postfix
        /\ (postfix = Toks(<<"a", "b", ".", "c", "|">>)) =>
               root = << RegexNode(<<"|">>,
                                   << RegexNode(<<".">>, <<Leaf("a")>>,
                                                <<Leaf("b")>>) >>,
                                   <<Leaf("c")>>) >>

(***************************************************************************)
(* Properties of the infix pipeline (SpecRegex)                            *)
(***************************************************************************)
Range(f) == {f[i] : i \in DOMAIN f}

AfterShunting == pc \in {"build", "returned", "raised"}

\* C1: for the input (a|b the unmatched ( is dropped: the postfix is ab|
\* and the pipeline returns the tree of a|b.
C1_UnmatchedOpenDropped ==
    (expr = <<"(", "a", "|", "b">>) =>
        /\ AfterShunting => postfix = Toks(<<"a", "b", "|">>)
        /\ pc # "raised"
        /\ (pc = "returned") =>
               root = <<RegexNode(<<"|">>, <<Leaf("a")>>, <<Leaf("b")>>)>>

\* A reference parser by recursive descent for
\*   Alt ::= Cat ('|' Cat)*   Cat ::= Rep Rep*   Rep ::= Atom '*'*
\*   Atom ::= literal | '(' Alt ')'
\* giving the postfix of the parse: alternation and concatenation are
\* left-associative, * binds tighter than concatenation, which binds
\* tighter than |. A result is [ok, out, next].
RefLiterals == {"a", "b", "c"}
RefFail == [ok |-> FALSE, out |-> <<>>, next |-> 0]

RECURSIVE RefAlt(_, _)
RECURSIVE RefCat(_, _)
RECURSIVE RefRep(_, _)
RECURSIVE RefAtom(_, _)
RECURSIVE RefAltTail(_, _)
RECURSIVE RefCatTail(_, _)
RECURSIVE RefRepTail(_, _)

RefAtom(s, i) ==
    IF i > Len(s) THEN RefFail
    ELSE IF s[i] \in RefLiterals
    THEN [ok |-> TRUE, out |-> <<(<<s[i]>>)>>, next |-> i + 1]
    ELSE IF s[i] = "("
    THEN LET r == RefAlt(s, i + 1)
         IN  IF r.ok /\ r.next <= Len(s) /\ s[r.next] = ")"
             THEN [r EXCEPT !.next = @ + 1]
             ELSE RefFail
    ELSE RefFail

RefRepTail(s, r) ==
    IF r.next <= Len(s) /\ s[r.next] = "*"
    THEN RefRepTail(s, [ok |-> TRUE, out |-> Append(r.out, <<"*">>),
                        next |-> r.next + 1])
    ELSE r

RefRep(s, i) ==
    LET a == RefAtom(s, i) IN IF a.ok THEN RefRepTail(s, a) ELSE RefFail

RefCatTail(s, r) ==
    IF r.next <= Len(s) /\ s[r.next] \in RefLiterals \cup {"("}
    THEN LET q == RefRep(s, r.next)
         IN  IF q.ok
             THEN RefCatTail(s, [ok |-> TRUE,
                                 out |-> r.out \o q.out \o <<(<<".">>)>>,
                                 next |-> q.next])
             ELSE RefFail
    ELSE r

RefCat(s, i) ==
    LET a == RefRep(s, i) IN IF a.ok THEN RefCatTail(s, a) ELSE RefFail

RefAltTail(s, r) ==
    IF r.next <= Len(s) /\ s[r.next] = "|"
    THEN LET q == RefCat(s, r.next + 1)
         IN  IF q.ok
             THEN RefAltTail(s, [ok |-> TRUE,
                                 out |-> r.out \o q.out \o <<(<<"|">>)>>,
                                 next |-> q.next])
             ELSE RefFail
    ELSE r

RefAlt(s, i) ==
    LET a == RefCat(s, i) IN IF a.ok THEN RefAltTail(s, a) ELSE RefFail

\* the whole of s is an expression
RefParse(s) ==
    LET r == RefAlt(s, 1)
    IN  IF r.ok /\ r.next = Len(s) + 1 THEN r ELSE RefFail

\* C4: on every well-formed expression over literals, |, * and
\* parentheses the postfix of insert_concatenation then shunting_yard is
\* the postfix of the reference parser; a|bc* gives the tokens a|b.c* and
\* the postfix abc*.| and (a|b)c gives (a|b).c and ab|c. .
C4_Precedence ==
    /\ (pc # "infix" /\ expr = <<"a", "|", "b", "c", "*">>) =>
           tokens = Toks(<<"a", "|", "b", ".", "c", "*">>)
    /\ (pc # "infix" /\ expr = <<"(", "a", "|", "b", ")", "c">>) =>
           tokens = Toks(<<"(", "a", "|", "b", ")", ".", "c">>)
    /\ (AfterShunting /\ expr = <<"a", "|", "b", "c", "*">>) =>
           postfix = Toks(<<"a", "b", "c", "*", ".", "|">>)
    /\ (AfterShunting /\ expr = <<"(", "a", "|", "b", ")", "c">>) =>
           postfix = Toks(<<"a", "b", "|", "c", ".">>)
    /\ (pc = "build" /\ k = 1 /\ RefParse(expr).ok) =>
           postfix = RefParse(expr).out

C4_Witness ==
    /\ pc = "build"
    /\ k = 1
    /\ expr = <<"a", "|", "b", "c", "*">>
    /\ RefParse(expr).ok
    /\ tokens = Toks(<<"a", "|", "b", ".", "c", "*">>)
    /\ postfix = Toks(<<"a", "b", "c", "*", ".", "|">>)

\* a line whose concatenations are all explicit: it holds a . token, and
\* every two adjacent tokens are joined by a . or do not concatenate
AlreadyExplicit(s) ==
    LET t == Tokenize(s, 1)
    IN  /\ <<".">> \in Range(t)
        /\ \A j \in 2..Len(t) :
               \/ t[j - 1] = <<".">>
               \/ t[j] = <<".">>
               \/ t[j - 1] \in {<<"|">>, <<"(">>}
               \/ t[j] \in {<<"|">>, <<")">>, <<"*">>, <<"+">>, <<"?">>}

\* C5: on a line whose concatenations are already explicit . tokens (such
\* as a.b), insert_concatenation inserts no further . : its result,
\* joined, is the line it was given.
C5_ConcatIdempotent ==
    (pc = "tokens" /\ AlreadyExplicit(infix)) => Join(tokens) = infix

\* Fully parenthesized expressions over literals, ., | and *:
\*   FP ::= literal | '(' FP '.' FP ')' | '(' FP '|' FP ')' | '(' FP '*' ')'
\* FullParen(s, i) is the position after the FP starting at i, or 0.
RECURSIVE FullParen(_, _)
FullParen(s, i) ==
    IF i > Len(s) THEN 0
    ELSE IF s[i] \in RefLiterals THEN i + 1
    ELSE IF s[i] # "(" THEN 0
    ELSE LET j == FullParen(s, i + 1)
         IN  IF j = 0 \/ j > Len(s) THEN 0
             ELSE IF s[j] = "*"
             THEN IF j + 1 <= Len(s) /\ s[j + 1] = ")" THEN j + 2 ELSE 0
             ELSE IF s[j] \in {".", "|"}
             THEN LET m == FullParen(s, j + 1)
                  IN  IF m # 0 /\ m <= Len(s) /\ s[m] = ")" THEN m + 1 ELSE 0
             ELSE 0

IsFullyParenthesized(s) == FullParen(s, 1) = Len(s) + 1

\* C7: for a fully parenthesized, balanced expression over literals, ., |
\* and *, build_syntax_tree consumes the postfix without underflow and
\* exactly one node, the root, is on the operand stack at the end.
C7_RoundTrip ==
    (IsFullyParenthesized(expr) /\ pc \in {"returned", "raised"}) =>
        (pc = "returned" /\ stack = <<>>)

(***************************************************************************)
(* Properties of expand_plus_question (SpecSimp)                           *)
(***************************************************************************)
Expanded == pc = "infix"

\* C6: the expanded string holds no unescaped + or ?.
C6_NoQuantifierLeft ==
    Expanded =>
        \A t \in Range(Tokenize(infix, 1)) : t \notin {<<"+">>, <<"?">>}

\* X+ is XX* and X? is (X|ε)
Quantified(x, q) ==
    IF q = "+" THEN x \o x \o <<"*">>
    ELSE <<"(">> \o x \o <<"|", Epsilon, ")">>

\* the number of unescaped ( less the number of unescaped ) among the
\* first n tokens of t
RECURSIVE Depth(_, _)
Depth(t, n) ==
    IF n = 0 THEN 0
    ELSE LET d == Depth(t, n - 1)
         IN  IF t[n] = <<"(">> THEN d + 1
             ELSE IF t[n] = <<")">> /\ d > 0 THEN d - 1
             ELSE d

\* x is one balanced group: it opens with (, and that ( is closed by the
\* last character and not before
IsGroup(x) ==
    LET t == Tokenize(x, 1)
    IN  /\ Len(t) >= 2
        /\ t[1] = <<"(">>
        /\ Last(t) = <<")">>
        /\ \A n \in 1..(Len(t) - 1) : Depth(t, n) >= 1
        /\ Depth(t, Len(t)) = 0

IsEscapePair(x) == Len(x) = 2 /\ x[1] = Backslash

IsSingleChar(x) == Len(x) = 1 /\ x[1] \notin {"(", Backslash}

\* C8: a unit X followed by + becomes XX* and followed by ? becomes
\* (X|ε), for X an escape pair, a single character, or a balanced group
\* whose interior is itself expanded; a+ gives aa*, a? gives (a|ε) and
\* (ab)+ gives (ab)(ab)*.
C8_QuantifierExpansion ==
    Expanded =>
        /\ \A q \in {"+", "?"} :
               (Len(expr) >= 2 /\ Last(expr) = q) =>
                   LET x == Front(expr)
                   IN  /\ (IsSingleChar(x) \/ IsEscapePair(x)) =>
                              infix = Quantified(x, q)
                       /\ IsGroup(x) =>
                              infix = Quantified(
                                  <<"(">> \o expand_plus_question(
                                                 SubSeq(x, 2, Len(x) - 1))
                                          \o <<")">>, q)
        /\ (expr = <<"a", "+">>) => infix = <<"a", "a", "*">>
        /\ (expr = <<"a", "?">>) => infix = <<"(", "a", "|", Epsilon, ")">>
        /\ (expr = <<"(", "a", "b", ")", "+">>) =>
               infix = <<"(", "a", "b", ")", "(", "a", "b", ")", "*">>

C8_Witness ==
    /\ Expanded
    /\ expr = <<"(", "a", "b", ")", "+">>
    /\ IsGroup(Front(expr))
    /\ infix = <<"(", "a", "b", ")", "(", "a", "b", ")", "*">>

QuantifierFree(s) == \A i \in 1..Len(s) : s[i] \notin {"+", "?"}

\* every unescaped ( of s is closed by a later unescaped )
AllGroupsClosed(s) == LET t == Tokenize(s, 1) IN Depth(t, Len(t)) = 0

====
